---- MODULE Spec2Model ----
(***************************************************************************)
(* A model of the YOLOv5 TensorRT inference server                         *)
(* (src/detect_trt_server.py, with the two-threshold decoder of             *)
(* src/detect_trt_fp32_server.py as a variant).                             *)
(*                                                                         *)
(* Numbers.  Tensor entries are IEEE values: a finite number, NaN, +inf or  *)
(* -inf.  Scores and thresholds are counted in hundredths (25 is 0.25),     *)
(* box parameters in model-input pixels, durations in clock ticks.          *)
(* Arithmetic on finite values is exact (no rounding error is modelled).    *)
(***************************************************************************)
EXTENDS Integers, Sequences, FiniteSets, TLC

\* ------------------------------------------------------------------ bounds
\* Largest number of anchor rows of a raw output tensor.
MaxRows == 2
\* Largest number of entries of a directory listing.
MaxFiles == 4
\* Largest duration, in ticks, of one timed section.
MaxTick == 1

\* ------------------------------------------------- program constants
\* --conf_thresh default 0.25, --nms_thresh default 0.45, in hundredths.
ConfTh == 25
NmsTh == 45
\* A --score_thresh given to the fp32 variant, chosen different from ConfTh
\* so that the two thresholds can be told apart: 0.50.
ScoreThAlt == 2 * ConfTh

\* ------------------------------------------------------------ IEEE values
F(n) == [k |-> "fin", v |-> n]
NaN == [k |-> "nan", v |-> 0]
PInf == [k |-> "inf", v |-> 1]
NInf == [k |-> "inf", v |-> -1]

\* np.isnan, math.isfinite
IsNaN(x) == x.k = "nan"
IsFinite(x) == x.k = "fin"

\* a < b on floats: False as soon as one side is NaN.
FLt(a, b) ==
  /\ ~IsNaN(a)
  /\ ~IsNaN(b)
  /\ CASE IsFinite(a) /\ IsFinite(b) -> a.v < b.v
       [] IsFinite(a) /\ ~IsFinite(b) -> b.v > 0
       [] ~IsFinite(a) /\ IsFinite(b) -> a.v < 0
       [] OTHER -> a.v < b.v

\* int(p / q) for q > 0: truncation towards zero.
TruncDiv(p, q) == IF p >= 0 THEN p \div q ELSE -((-p) \div q)

Max(a, b) == IF a >= b THEN a ELSE b
Min(a, b) == IF a <= b THEN a ELSE b

RECURSIVE SumSeq(_)
SumSeq(s) == IF s = <<>> THEN 0 ELSE Head(s) + SumSeq(Tail(s))

\* ------------------------------------------------------------------ state
VARIABLES
  variant,          \* "single": detect_trt_server.py; "dual": the fp32 variant
  class_labels,     \* self.class_labels
  input_shape,      \* self.input_shape (N, C, H, W)
  score_th,         \* self.score_th (dual); the confidence threshold (single)
  resized_img_w,    \* self.resized_img_w
  resized_img_h,    \* self.resized_img_h
  total_objects,    \* self.total_objects
  objects_by_class, \* self.objects_by_class
  invalid_outputs,  \* self.invalid_outputs
  total_time,       \* self.total_time
  inference_time,   \* self.inference_time
  num_frames,       \* self.num_frames
  frame,            \* the last call of postprocess_image: its arguments and locals
  pc,               \* where the program is
  image_paths,      \* infer_folder: image_paths
  idx,              \* infer_folder: number of images iterated so far
  results,          \* the per-image results of the last image or folder command
  outcome,          \* what the last command returned or raised
  csv,              \* the rows of detections.csv
  csv_mark,         \* history: Len(csv) when the current command began
  commands,         \* history: number of command lines read
  faults,           \* history: what went wrong with each image of the folder
  running,          \* YOLOv5Server.running
  inferencer,       \* YOLOv5Server.inferencer: "held" or "none"
  context,          \* TRTInferenceYolov5.context: "held" or "none"
  engine,           \* TRTInferenceYolov5.engine: "held" or "none"
  released,         \* history: the handles set to None, in the order of release
  shutdown,         \* history: how and where shutdown began
  last,             \* history: the last command line read
  emitted,          \* history: what the last command printed or wrote
  returned,         \* history: detections returned by successful images so far
  entry,            \* fp32 program: entered through main() or through start()
  argv,             \* fp32 program: sys.argv
  invoked,          \* history: calls of _handle_image_command / _handle_folder_command
  buffers           \* the device buffers allocated and not yet freed

\* The server's handles and its shutdown bookkeeping.
serverVars == <<running, inferencer, context, engine, released, shutdown>>

\* What the command loop has read and produced.
loopVars == <<last, emitted, returned>>

\* The startup arguments of detect_trt_fp32_server.py and what became of them.
argsVars == <<entry, argv, invoked>>

vars == <<variant, class_labels, input_shape, score_th, resized_img_w,
          resized_img_h, total_objects, objects_by_class, invalid_outputs,
          total_time, inference_time, num_frames, frame, pc,
          image_paths, idx, results, outcome, csv, csv_mark, commands,
          faults, serverVars, loopVars, argsVars, buffers>>

\* ---------------------------------------------------------- the decoder
\* np.isnan(detect).any()
RowHasNaN(detect) == \E i \in DOMAIN detect : IsNaN(detect[i])

\* np.isnan(yolov5_output).any()
OutputHasNaN(output) == \E r \in DOMAIN output : RowHasNaN(output[r])

\* The threshold the best class score is compared with: self.conf_th again in
\* detect_trt_server.py, self.score_th in detect_trt_fp32_server.py.
ScoreThreshold(var, sth) == IF var = "single" THEN ConfTh ELSE sth

\* A faulty variant of BelowConf, `conf <= self.conf_th`, against which the
\* boundary case of the thresholds is exercised.
BelowConf_Mut(conf) == ~FLt(F(ConfTh), conf)

\* `conf < self.conf_th`: the row is rejected.
BelowConf(conf) == FLt(conf, F(ConfTh))

\* `class_score[class_idx] < threshold`: the row is rejected.
BelowScore(score, th) == FLt(score, F(th))

\* np.argmax, 0-based: the first index of a largest element.
ArgMax(class_score) ==
  CHOOSE i \in 0..(Len(class_score) - 1) :
    /\ \A j \in 0..(Len(class_score) - 1) :
         ~FLt(class_score[i + 1], class_score[j + 1])
    /\ \A j \in 0..(i - 1) : FLt(class_score[j + 1], class_score[i + 1])

\* max(0, int((c - s/2) * scale)) with scale = dim / resized
TopLeft(c, s, dim, resized) == Max(0, TruncDiv((2 * c - s) * dim, 2 * resized))

\* A faulty variant of Scaled that forgets the clamp against the far border.
Scaled_Mut(s, dim, resized, top_left) == TruncDiv(s * dim, resized)

\* min(dim - top_left, int(s * scale)) with scale = dim / resized
Scaled(s, dim, resized, top_left) ==
  Min(dim - top_left, TruncDiv(s * dim, resized))

\* One iteration of `for detect in yolov5_output[0]`: the candidate appended to
\* class_ids / confidences / bboxes / yolo_bboxes, or nothing.  `row` records
\* the anchor row the candidate came from.
DecodeRow(detect, row, height, width, rw, rh, th) ==
  IF RowHasNaN(detect) THEN <<>>
  ELSE IF BelowConf(detect[5]) THEN <<>>
  ELSE
    LET class_score == SubSeq(detect, 6, Len(detect))
        class_idx == ArgMax(class_score)
    IN
    IF BelowScore(class_score[class_idx + 1], th) THEN <<>>
    ELSE IF \E i \in 1..4 : ~IsFinite(detect[i]) THEN <<>>
    ELSE
      LET cx == detect[1].v
          cy == detect[2].v
          w == detect[3].v
          h == detect[4].v
          top_left_x == TopLeft(cx, w, width, rw)
          top_left_y == TopLeft(cy, h, height, rh)
          width_scaled == Scaled(w, width, rw, top_left_x)
          height_scaled == Scaled(h, height, rh, top_left_y)
      IN
      IF width_scaled <= 0 \/ height_scaled <= 0 THEN <<>>
      ELSE << [class_id |-> class_idx,
               confidence |-> detect[5],
               bbox |-> <<top_left_x, top_left_y, width_scaled, height_scaled>>,
               yolo_bbox |-> <<cx, cy, w, h>>,
               row |-> row] >>

\* The whole loop over the anchor rows, in tensor order.
RECURSIVE DecodeRows(_, _, _, _, _, _, _)
DecodeRows(output, row, height, width, rw, rh, th) ==
  IF row > Len(output) THEN <<>>
  ELSE DecodeRow(output[row], row, height, width, rw, rh, th)
         \o DecodeRows(output, row + 1, height, width, rw, rh, th)

\* ------------------------------------------------------- the suppressor
\* cv2.dnn.NMSBoxes(bboxes, confidences, score_threshold, nms_threshold), as
\* OpenCV implements it: the scores strictly above score_threshold, stably
\* sorted by descending score, then kept greedily while the overlap with every
\* box kept so far is at most nms_threshold.
ScoreAbove(score, th) == FLt(F(th), score)

Area(b) == b[3] * b[4]

Inter(a, b) ==
  LET iw == Min(a[1] + a[3], b[1] + b[3]) - Max(a[1], b[1])
      ih == Min(a[2] + a[4], b[2] + b[4]) - Max(a[2], b[2])
  IN IF iw > 0 /\ ih > 0 THEN iw * ih ELSE 0

\* IoU(a, b) <= nms / 100
OverlapWithin(a, b, nms) ==
  Inter(a, b) * 100 <= nms * (Area(a) + Area(b) - Inter(a, b))

\* i is taken before j: higher score first, the lower index on a tie.
Before(i, j, scores) ==
  \/ FLt(scores[j], scores[i])
  \/ (~FLt(scores[i], scores[j]) /\ i < j)

RECURSIVE SortByScore(_, _)
SortByScore(S, scores) ==
  IF S = {} THEN <<>>
  ELSE LET m == CHOOSE i \in S : \A j \in S \ {i} : Before(i, j, scores)
       IN <<m>> \o SortByScore(S \ {m}, scores)

RECURSIVE Greedy(_, _, _, _)
Greedy(order, kept, bboxes, nms) ==
  IF order = <<>> THEN kept
  ELSE LET i == Head(order)
           keep == \A t \in DOMAIN kept :
                     OverlapWithin(bboxes[i], bboxes[kept[t]], nms)
       IN Greedy(Tail(order), IF keep THEN Append(kept, i) ELSE kept, bboxes, nms)

\* A faulty variant of NMSBoxes that compares a box only with the box taken
\* just before it in the sorted order, retained or not.
NMSBoxes_Mut(bboxes, scores, score_threshold, nms_threshold) ==
  LET passing == {i \in DOMAIN scores : ScoreAbove(scores[i], score_threshold)}
      order == SortByScore(passing, scores)
      At(i) == CHOOSE k \in DOMAIN order : order[k] = i
  IN SelectSeq(order,
               LAMBDA i : \/ At(i) = 1
                          \/ OverlapWithin(bboxes[i], bboxes[order[At(i) - 1]],
                                           nms_threshold))

NMSBoxes(bboxes, scores, score_threshold, nms_threshold) ==
  LET passing == {i \in DOMAIN scores : ScoreAbove(scores[i], score_threshold)}
  IN Greedy(SortByScore(passing, scores), <<>>, bboxes, nms_threshold)

\* --------------------------------------------------- postprocess_image
\* A faulty variant of ClassName that gives an index past the table the last
\* label.
ClassName_Mut(class_idx, labels) ==
  labels[Min(Max(class_idx, 0), Len(labels) - 1) + 1]

\* `if 0 <= class_idx < len(self.class_labels)` ... else "Unknown"
ClassName(class_idx, labels) ==
  IF 0 <= class_idx /\ class_idx < Len(labels) THEN labels[class_idx + 1]
  ELSE "Unknown"

\* The detection dict appended for a candidate that survived NMS.
Detection(cand, labels) ==
  [class |-> ClassName(cand.class_id, labels),
   confidence |-> cand.confidence,
   bbox |-> cand.bbox,
   yolo_bbox |-> cand.yolo_bbox]

\* self.objects_by_class after the loop over indices_nms.
CountByClass(byclass, cands, kept, labels) ==
  [l \in DOMAIN byclass |->
     byclass[l] + Cardinality({t \in DOMAIN kept :
                                 ClassName(cands[kept[t]].class_id, labels) = l})]

\* A faulty variant of CountObjects that counts a frame, not its objects.
CountObjects_Mut(total, kept) == total + (IF Len(kept) > 0 THEN 1 ELSE 0)

\* self.total_objects after the loop over indices_nms.
CountObjects(total, kept) == total + Len(kept)

\* postprocess_image on a readable image: the locals it computed, the list it
\* returns and the counters it leaves.
Postprocess(output, height, width, rw, rh, var, sth, labels, total, byclass, invalid) ==
  IF OutputHasNaN(output) THEN
    [nan_frame |-> TRUE, cands |-> <<>>, indices_nms |-> <<>>,
     detections |-> <<>>, total_objects |-> total,
     objects_by_class |-> byclass, invalid_outputs |-> invalid + 1]
  ELSE
    LET cands == DecodeRows(output, 1, height, width, rw, rh, ScoreThreshold(var, sth))
        bboxes == [i \in DOMAIN cands |-> cands[i].bbox]
        confidences == [i \in DOMAIN cands |-> cands[i].confidence]
        kept == IF Len(cands) > 0 THEN NMSBoxes(bboxes, confidences, ConfTh, NmsTh)
                ELSE <<>>
    IN [nan_frame |-> FALSE, cands |-> cands, indices_nms |-> kept,
        detections |-> [t \in DOMAIN kept |-> Detection(cands[kept[t]], labels)],
        total_objects |-> CountObjects(total, kept),
        objects_by_class |-> CountByClass(byclass, cands, kept, labels),
        invalid_outputs |-> invalid]

\* preprocess_image: cv2.resize(img, (input_shape[2], input_shape[3])) gives an
\* image of input_shape[2] columns and input_shape[3] rows, and
\* `self.resized_img_w, self.resized_img_h = resized_img.shape[:2]` unpacks
\* (rows, columns).
ResizedImage(shape) == [rows |-> shape[4], columns |-> shape[3]]
ResizedW(shape) == ResizedImage(shape).rows
ResizedH(shape) == ResizedImage(shape).columns

\* reset_counters (num_frames is set by the callers right after it)
ZeroByClass(labels) == [l \in {labels[i] : i \in DOMAIN labels} |-> 0]

\* --------------------------------------------------------------- inputs
\* An anchor row: cx, cy, w, h, objectness, then one score per class.
Row(box, conf, scores) ==
  <<F(box[1]), F(box[2]), F(box[3]), F(box[4]), conf>> \o scores

\* Rows around the thresholds, on a box covering the whole model input.
ThresholdRows ==
  {Row(<<2, 2, 4, 4>>, conf, scores) :
     conf \in {F(ConfTh - 1), F(ConfTh), F(90)},
     scores \in {<<F(90), F(10)>>, <<F(10), F(ConfTh)>>,
                 <<F(ConfTh - 1), F(10)>>, <<F(ScoreThAlt), F(ScoreThAlt)>>}}

\* Rows that pass the thresholds, on boxes inside, across and outside the
\* borders: (cx, w) and (cy, h) pairs.
GeometryRows ==
  {Row(<<xs[1], ys[1], xs[2], ys[2]>>, F(80), <<F(10), F(90)>>) :
     xs \in {<<1, 2>>, <<0, 2>>, <<4, 4>>, <<2, 0>>},
     ys \in {<<2, 4>>, <<3, 4>>, <<2, -2>>}}

\* Rows holding a NaN or an infinity in a box parameter, the objectness or a
\* class score.
NonFiniteRows ==
  {<<NaN, F(2), F(4), F(4), F(90), F(90), F(10)>>,
   <<F(2), F(2), F(4), F(4), NaN, F(90), F(10)>>,
   <<F(2), F(2), F(4), F(4), F(90), F(90), NaN>>,
   <<F(2), F(2), PInf, F(4), F(90), F(90), F(10)>>,
   <<F(2), F(2), F(4), F(4), PInf, F(90), F(10)>>,
   <<F(2), F(2), F(4), F(4), F(90), NInf, PInf>>}

Rows == ThresholdRows \cup GeometryRows \cup NonFiniteRows

RECURSIVE SeqsUpTo(_, _)
SeqsUpTo(S, n) ==
  IF n = 0 THEN {<<>>}
  ELSE LET shorter == SeqsUpTo(S, n - 1)
       IN shorter \cup {Append(s, x) : s \in {t \in shorter : Len(t) = n - 1}, x \in S}

\* The raw output tensors of the decoder's specification.
Outputs == SeqsUpTo(Rows, MaxRows)

\* (N, C, H, W) of the model input: the square default and a non-square one.
InputShapes == {<<1, 3, 4, 4>>, <<1, 3, 2, 4>>}

\* (height, width) of the original image.
ImageDims == {<<4, 4>>, <<6, 8>>}

\* The label files: one class, two classes.
LabelTables == {<<"person">>, <<"person", "car">>}

\* The two programs and their score thresholds.
Variants == {<<"single", ConfTh>>, <<"dual", ScoreThAlt>>}

NoFrame ==
  [state |-> "none", output |-> <<>>, height |-> 0, width |-> 0,
   invalid_before |-> 0, nan_frame |-> FALSE, cands |-> <<>>,
   indices_nms |-> <<>>, detections |-> <<>>]

\* Nothing has begun shutdown; no command line has been read.
NoShutdown == [by |-> "none", at |-> "none", idx |-> 0]

\* detect_trt_server.py takes its commands from input(): no startup command,
\* no handler of the fp32 program, no device buffer allocated yet.
NoArguments ==
  /\ entry = "none"
  /\ argv = [command |-> "none", json_output |-> "none", complete |-> TRUE]
  /\ invoked = 0
  /\ buffers = {}
NoPath == [dir |-> "", file |-> [name |-> 0, ext |-> ""]]
NoCommand ==
  [kind |-> "none", late |-> FALSE, handled |-> FALSE, typed |-> NoPath,
   path |-> NoPath]

\* TRTInferenceYolov5.__init__ and YOLOv5Server.__init__: the engine and its
\* execution context are held by the inferencer, the inferencer by the server.
Constructed ==
  /\ inferencer = "held"
  /\ context = "held"
  /\ engine = "held"
  /\ released = <<>>
  /\ shutdown = NoShutdown
  /\ last = NoCommand
  /\ emitted = {}
  /\ returned = 0

\* --------------------------------------- the decoder on its own: SpecDecode
InitDecode ==
  /\ running = FALSE
  /\ \E v \in Variants : variant = v[1] /\ score_th = v[2]
  /\ class_labels \in LabelTables
  /\ input_shape \in InputShapes
  /\ resized_img_w = 0
  /\ resized_img_h = 0
  /\ total_objects = 0
  /\ objects_by_class = ZeroByClass(class_labels)
  /\ invalid_outputs = 0
  /\ total_time = 0
  /\ inference_time = 0
  /\ num_frames = 1
  /\ \E o \in Outputs, d \in ImageDims :
       frame = [NoFrame EXCEPT !.state = "pending", !.output = o,
                               !.height = d[1], !.width = d[2]]
  /\ pc = "decode"
  /\ image_paths = <<>>
  /\ idx = 0
  /\ results = <<>>
  /\ outcome = [kind |-> "none"]
  /\ csv = <<>>
  /\ csv_mark = 0
  /\ commands = 0
  /\ faults = <<>>
  /\ Constructed
  /\ NoArguments

\* preprocess_image's bookkeeping of the resized shape, then postprocess_image
\* on the engine's output for the frame.
DecodeFrame ==
  /\ pc = "decode"
  /\ frame.state = "pending"
  /\ LET rw == ResizedW(input_shape)
         rh == ResizedH(input_shape)
     IN \E r \in {Postprocess(frame.output, frame.height, frame.width, rw, rh,
                                variant, score_th, class_labels, total_objects,
                                objects_by_class, invalid_outputs)} :
        /\ resized_img_w' = rw
        /\ resized_img_h' = rh
        /\ total_objects' = r.total_objects
        /\ objects_by_class' = r.objects_by_class
        /\ invalid_outputs' = r.invalid_outputs
        /\ frame' = [frame EXCEPT !.state = "done",
                                  !.invalid_before = invalid_outputs,
                                  !.nan_frame = r.nan_frame,
                                  !.cands = r.cands,
                                  !.indices_nms = r.indices_nms,
                                  !.detections = r.detections]
  /\ UNCHANGED <<argsVars, buffers, variant, class_labels, input_shape,
                 score_th, total_time,
                 inference_time, num_frames, pc, image_paths, idx,
                 results, outcome, csv, csv_mark, commands, faults,
                 serverVars, loopVars>>

NextDecode == DecodeFrame

SpecDecode == InitDecode /\ [][NextDecode]_vars

\* ------------------------------------------------------ generate_metrics
\* A faulty variant of generate_metrics whose division by a zero total time
\* yields a quotient instead of raising.
GenerateMetrics_Mut(frames, ttime, itime, total, invalid, byclass) ==
  IF frames > 0 THEN
    [kind |-> "metrics", num_frames |-> frames, total_time |-> ttime,
     inference_time |-> itime, average_fps |-> <<frames, ttime>>,
     average_inference_time |-> <<itime, frames>>, total_objects |-> total,
     invalid_outputs |-> invalid, objects_by_class |-> byclass]
  ELSE [kind |-> "empty"]

\* The dict generate_metrics returns, or the ZeroDivisionError it raises; a
\* quotient is kept as <<numerator, denominator>>.
GenerateMetrics(frames, ttime, itime, total, invalid, byclass) ==
  IF frames > 0 THEN
    IF ttime = 0 THEN [kind |-> "raised", error |-> "ZeroDivisionError"]
    ELSE [kind |-> "metrics",
          num_frames |-> frames,
          total_time |-> ttime,
          inference_time |-> itime,
          average_fps |-> <<frames, ttime>>,
          average_inference_time |-> <<itime, frames>>,
          total_objects |-> total,
          invalid_outputs |-> invalid,
          objects_by_class |-> byclass]
  ELSE [kind |-> "empty"]

\* ------------------------------------------------------------ the folder
\* The files a folder may hold: 1.jpg, 2.PNG, 3.txt, 4.bmp, ...; `name` orders
\* the file names lexicographically.
Extensions == <<".jpg", ".PNG", ".txt", ".bmp">>
File(n) == [name |-> n, ext |-> Extensions[((n - 1) % Len(Extensions)) + 1]]
Files == {File(n) : n \in 1..MaxFiles}

\* str.lower on an extension
Lower(ext) == IF ext = ".PNG" THEN ".png" ELSE ext

\* image_extensions
ImageExtensions == {".jpg", ".jpeg", ".png", ".bmp"}

\* os.listdir: the entries of the folder, each once, in arbitrary order.
Listings ==
  {l \in SeqsUpTo(Files, MaxFiles) :
     \A i, j \in DOMAIN l : i # j => l[i] # l[j]}

\* os.path.join(folder_path, filename), os.path.basename(path)
JoinPath(filename) == [dir |-> "folder", file |-> filename]
BaseName(path) == path.file

\* `any(filename.lower().endswith(ext) for ext in image_extensions)`
IsImageFile(filename) == Lower(filename.ext) \in ImageExtensions

\* get_images_from_folder: the image files of the listing, in listing order.
GetImagesFromFolder(listing) ==
  LET images == SelectSeq(listing, IsImageFile)
  IN [i \in DOMAIN images |-> JoinPath(images[i])]

\* What the engine returns for a frame in the folder specification: two
\* separate boxes, or a tensor holding a NaN.
TwoBoxes ==
  <<Row(<<1, 2, 2, 4>>, F(90), <<F(90), F(10)>>),
    Row(<<3, 2, 2, 4>>, F(80), <<F(10), F(90)>>)>>
NaNOutput == <<Row(<<2, 2, 4, 4>>, NaN, <<F(90), F(10)>>)>>
EngineOutputs == {TwoBoxes, NaNOutput}

Durations == 0..MaxTick

\* What happens to one image: cv2.imread fails; or preprocessing takes `pre`
\* and the engine fails; or the engine takes `inf` and returns `output`.
ImageEvents ==
  {[readable |-> FALSE, engine_ok |-> FALSE, pre |-> 0, inf |-> 0,
    output |-> <<>>]}
  \cup {[readable |-> TRUE, engine_ok |-> FALSE, pre |-> p, inf |-> 0,
         output |-> <<>>] : p \in Durations}
  \cup {[readable |-> TRUE, engine_ok |-> TRUE, pre |-> p, inf |-> i,
         output |-> o] : p \in Durations, i \in Durations, o \in EngineOutputs}

\* What went wrong under an event: nothing, the load, the engine.
Fault(e) ==
  IF ~e.readable THEN "load" ELSE IF ~e.engine_ok THEN "engine" ELSE "none"

\* (height, width) of the images of the folder and session specifications.
FolderImageDims == <<4, 4>>

\* infer_single_image past the engine: the times recorded, postprocess_image
\* (whose outcome is r) and the dict returned.
InferredImage(image_path, e, c, r) ==
  [result |-> [success |-> TRUE, input_path |-> image_path,
               detections |-> r.detections, error |-> ""],
   counters |-> [total_time |-> c.total_time + e.pre + e.inf,
                 inference_time |-> c.inference_time + e.inf,
                 total_objects |-> r.total_objects,
                 objects_by_class |-> r.objects_by_class,
                 invalid_outputs |-> r.invalid_outputs,
                 resized_img_w |-> ResizedW(input_shape),
                 resized_img_h |-> ResizedH(input_shape)],
   frame |-> [state |-> "done", output |-> e.output,
              height |-> FolderImageDims[1], width |-> FolderImageDims[2],
              invalid_before |-> c.invalid_outputs,
              nan_frame |-> r.nan_frame, cands |-> r.cands,
              indices_nms |-> r.indices_nms, detections |-> r.detections]]

FailedResult(image_path) ==
  [success |-> FALSE, input_path |-> image_path, detections |-> <<>>,
   error |-> "Error processing image"]

\* infer_single_image(image_path, save_dir_path, reset_counters=False) under
\* event e, from counters c: the dict it returns and the counters it leaves.
\* Every exception is caught by its own `except Exception`.
InferSingleImage(image_path, e, c) ==
  IF ~e.readable THEN
    \* preprocess_image raises ValueError before any counter is touched
    [result |-> FailedResult(image_path), counters |-> c, frame |-> NoFrame]
  ELSE IF ~e.engine_ok THEN
    [result |-> FailedResult(image_path),
     counters |-> [c EXCEPT !.total_time = @ + e.pre,
                            !.resized_img_w = ResizedW(input_shape),
                            !.resized_img_h = ResizedH(input_shape)],
     frame |-> NoFrame]
  ELSE
    InferredImage(image_path, e, c,
                  Postprocess(e.output, FolderImageDims[1], FolderImageDims[2],
                              ResizedW(input_shape), ResizedH(input_shape),
                              variant, score_th, class_labels, c.total_objects,
                              c.objects_by_class, c.invalid_outputs))

Counters ==
  [total_time |-> total_time, inference_time |-> inference_time,
   total_objects |-> total_objects, objects_by_class |-> objects_by_class,
   invalid_outputs |-> invalid_outputs, resized_img_w |-> resized_img_w,
   resized_img_h |-> resized_img_h]

SetCounters(c) ==
  /\ total_time' = c.total_time
  /\ inference_time' = c.inference_time
  /\ total_objects' = c.total_objects
  /\ objects_by_class' = c.objects_by_class
  /\ invalid_outputs' = c.invalid_outputs
  /\ resized_img_w' = c.resized_img_w
  /\ resized_img_h' = c.resized_img_h

\* ------------------------------------------------------ detections.csv
\* The header row _init_csv_file writes.
HeaderRow == [kind |-> "header"]

\* The row writer.writerow appends for one detection.
CsvRow(image_filename, detection) ==
  [kind |-> "row", image_file |-> image_filename, class |-> detection.class,
   confidence |-> detection.confidence, bbox |-> detection.bbox,
   yolo_bbox |-> detection.yolo_bbox]

\* A faulty variant of _write_detections_to_csv that opens the file with 'w'.
WriteDetectionsToCsv_Mut(file, image_path, detections) ==
  IF detections = <<>> THEN file
  ELSE <<HeaderRow>>
         \o [i \in DOMAIN detections |-> CsvRow(BaseName(image_path), detections[i])]

\* _write_detections_to_csv: the file after the call.
WriteDetectionsToCsv(file, image_path, detections) ==
  IF detections = <<>> THEN file
  ELSE file \o [i \in DOMAIN detections |-> CsvRow(BaseName(image_path), detections[i])]

\* A faulty variant of the loop below that walks result["results"] backwards.
RECURSIVE WriteFolderResults_Mut(_, _)
WriteFolderResults_Mut(file, img_results) ==
  IF img_results = <<>> THEN file
  ELSE LET img_result == img_results[Len(img_results)]
       IN WriteFolderResults_Mut(
            IF img_result.success
            THEN WriteDetectionsToCsv(file, img_result.input_path, img_result.detections)
            ELSE file,
            SubSeq(img_results, 1, Len(img_results) - 1))

\* _process_folder's loop over result["results"]: the file after it.
RECURSIVE WriteFolderResults(_, _)
WriteFolderResults(file, img_results) ==
  IF img_results = <<>> THEN file
  ELSE LET img_result == Head(img_results)
       IN WriteFolderResults(
            IF img_result.success
            THEN WriteDetectionsToCsv(file, img_result.input_path, img_result.detections)
            ELSE file,
            Tail(img_results))

\* ----------------------------------------- one folder command: SpecFolder
\* The state after YOLOv5Server.__init__ and start(): counters reset, the
\* csv file created with its header, the loop waiting for a command.
InitServer ==
  /\ running = TRUE
  /\ variant = "single"
  /\ score_th = ConfTh
  /\ class_labels = <<"person", "car">>
  /\ input_shape = <<1, 3, 4, 4>>
  /\ resized_img_w = 0
  /\ resized_img_h = 0
  /\ total_objects = 0
  /\ objects_by_class = ZeroByClass(class_labels)
  /\ invalid_outputs = 0
  /\ total_time = 0
  /\ inference_time = 0
  /\ num_frames = 0
  /\ frame = NoFrame
  /\ pc = "prompt"
  /\ image_paths = <<>>
  /\ idx = 0
  /\ results = <<>>
  /\ outcome = [kind |-> "none"]
  /\ csv = <<HeaderRow>>
  /\ csv_mark = 0
  /\ commands = 0
  /\ faults = <<>>
  /\ Constructed
  /\ NoArguments

\* The record of a command line read now: `late` when shutdown had begun
\* before it was read, `handled` when it is passed to _process_single_image
\* or _process_folder.
CommandRead(kind, handled) ==
  [kind |-> kind, late |-> shutdown.by # "none", handled |-> handled,
   typed |-> NoPath, path |-> NoPath]

\* str.lower on a path of the model, whose upper-case letters are those of
\* the extension.
LowerPath(path) == [path EXCEPT !.file.ext = Lower(@)]

\* An image command whose --image argument was typed as `typed`:
\* `command = input("> ").strip().lower()`, `args = command.split()`,
\* `image_path = args[img_index]`, a word of the lower-cased line.
ImageCommandRead(typed) ==
  [CommandRead("image", TRUE) EXCEPT !.typed = typed, !.path = LowerPath(typed)]

\* A faulty variant of the loop test that never leaves the loop.
LoopTest_Mut(r) == "prompt"

\* `while self.running`, with r the value of self.running: back to input(),
\* or out of the loop.
LoopTest(r) == IF r THEN "prompt" ELSE "exiting"

\* The loop test after a command that leaves self.running alone.
AfterCommand == LoopTest(running)

\* An image under event e once cleanup has set self.context to None: a readable
\* image is preprocessed and then fails at `self.context.execute_v2`.
Under(e) ==
  IF context = "held" \/ ~e.readable THEN e
  ELSE [e EXCEPT !.engine_ok = FALSE, !.inf = 0, !.output = <<>>]

FaultUnder(e) ==
  IF context = "held" \/ ~e.readable THEN Fault(e) ELSE "released"

\* The device buffers live once an image has given its result.  d_input and
\* d_output are allocated after preprocessing and freed by `d_input.free()`,
\* `d_output.free()` on the success path only; a failure of the copy to the
\* device, of the execution or of the copy back (fault "engine", or "released"
\* when the context is gone) jumps over them.  In infer_single_image the two
\* names die with the call and pycuda releases their memory then; in the fp32
\* infer_folder the loop body is inline (`inline`), the names stay bound to
\* the allocations until a later image rebinds them.
BuffersAfter(inline, fault, live) ==
  IF fault = "none" THEN {}
  ELSE IF fault = "load" THEN live
  ELSE IF inline THEN {"d_input", "d_output"}
  ELSE {}

\* What processing one image prints or writes: the annotated image saved by
\* postprocess_image, or the error message (in a folder also the progress
\* line, a message in either case).
Emits(result) == IF result.success THEN {"message", "image"} ELSE {"message"}

\* _process_folder up to the first image of infer_folder: the folder is
\* missing; or infer_folder resets the counters, lists the folder, sets
\* num_frames and returns at once when no image is found.
ProcessFolderBegin(limit, listings) ==
  /\ pc = "prompt"
  /\ commands < limit
  /\ commands' = commands + 1
  /\ faults' = <<>>
  /\ csv_mark' = Len(csv)
  /\ idx' = 0
  /\ results' = <<>>
  /\ frame' = NoFrame
  /\ last' = CommandRead("folder", TRUE)
  /\ \/ /\ outcome' = [kind |-> "not_found"]
        /\ image_paths' = <<>>
        /\ emitted' = {"message"}
        /\ pc' = AfterCommand
        /\ UNCHANGED <<total_objects, objects_by_class, invalid_outputs,
                       total_time, inference_time, num_frames>>
     \/ \E listing \in listings :
          /\ inferencer = "held"
          /\ emitted' = {}
          /\ image_paths' = GetImagesFromFolder(listing)
          /\ total_objects' = 0
          /\ objects_by_class' = ZeroByClass(class_labels)
          /\ invalid_outputs' = 0
          /\ total_time' = 0
          /\ inference_time' = 0
          /\ num_frames' = Len(image_paths')
          /\ IF image_paths' = <<>>
             THEN /\ outcome' = [kind |-> "returned", success |-> FALSE,
                                 error |-> "No valid images found"]
                  /\ pc' = AfterCommand
             ELSE /\ outcome' = [kind |-> "running"]
                  /\ pc' = "folder_loop"
  /\ UNCHANGED <<argsVars, buffers, variant, class_labels, input_shape,
                 score_th, resized_img_w,
                 resized_img_h, csv, serverVars, returned>>

\* One iteration of infer_folder's loop: infer_single_image on the next image
\* without resetting the counters, its result appended to results.
FolderImageOn(events) ==
  /\ pc = "folder_loop"
  /\ idx < Len(image_paths)
  /\ \E e \in events :
       \E r \in {InferSingleImage(image_paths[idx + 1], Under(e), Counters)} :
          /\ SetCounters(r.counters)
          /\ frame' = r.frame
          /\ results' = Append(results, r.result)
          /\ faults' = Append(faults, FaultUnder(e))
          /\ emitted' = emitted \cup Emits(r.result)
          /\ returned' = returned + Len(r.result.detections)
          /\ buffers' = BuffersAfter(variant = "dual", FaultUnder(e), buffers)
  /\ idx' = idx + 1
  /\ UNCHANGED <<argsVars, variant, class_labels, input_shape,
                 score_th, num_frames, pc,
                 image_paths, outcome, csv, csv_mark, commands, serverVars,
                 last>>

FolderImage == FolderImageOn(ImageEvents)

\* The end of infer_folder and of _process_folder: generate_metrics, the dict
\* returned, and the detections of every successful image written to the csv
\* file; a ZeroDivisionError of generate_metrics leaves infer_folder and is
\* caught and printed by _process_folder.
FolderFinish ==
  /\ pc = "folder_loop"
  /\ idx = Len(image_paths)
  /\ \E metrics \in {GenerateMetrics(num_frames, total_time, inference_time,
                                     total_objects, invalid_outputs,
                                     objects_by_class)} :
        IF metrics.kind = "raised"
        THEN /\ outcome' = metrics
             /\ csv' = csv
             /\ emitted' = emitted \cup {"message"}
        ELSE /\ outcome' = [kind |-> "returned", success |-> TRUE,
                            metrics |-> metrics, results |-> results]
             /\ csv' = WriteFolderResults(csv, results)
             /\ emitted' = emitted \cup (IF csv' # csv THEN {"rows"} ELSE {})
  /\ pc' = AfterCommand
  /\ UNCHANGED <<argsVars, buffers, variant, class_labels, input_shape,
                 score_th, resized_img_w,
                 resized_img_h, total_objects, objects_by_class, invalid_outputs,
                 total_time, inference_time, num_frames, frame, image_paths,
                 idx, results, csv_mark, commands, faults, serverVars, last,
                 returned>>

NextFolder ==
  \/ ProcessFolderBegin(1, Listings)
  \/ FolderImage
  \/ FolderFinish

SpecFolder == InitServer /\ [][NextFolder]_vars

\* ----------------------------------- generate_metrics alone: SpecMetrics
\* Any counter values, then one call of generate_metrics.
InitMetrics ==
  /\ running = FALSE
  /\ variant = "single"
  /\ score_th = ConfTh
  /\ class_labels = <<"person", "car">>
  /\ input_shape = <<1, 3, 4, 4>>
  /\ resized_img_w = 0
  /\ resized_img_h = 0
  /\ num_frames \in 0..MaxFiles
  /\ total_time \in 0..(2 * MaxTick * MaxFiles)
  /\ inference_time \in 0..total_time
  /\ total_objects \in 0..MaxRows
  /\ objects_by_class = ZeroByClass(class_labels)
  /\ invalid_outputs \in 0..1
  /\ frame = NoFrame
  /\ pc = "metrics"
  /\ image_paths = <<>>
  /\ idx = 0
  /\ results = <<>>
  /\ outcome = [kind |-> "none"]
  /\ csv = <<>>
  /\ csv_mark = 0
  /\ commands = 0
  /\ faults = <<>>
  /\ Constructed
  /\ NoArguments

CallGenerateMetrics ==
  /\ pc = "metrics"
  /\ outcome.kind = "none"
  /\ outcome' = GenerateMetrics(num_frames, total_time, inference_time,
                                total_objects, invalid_outputs, objects_by_class)
  /\ UNCHANGED <<argsVars, buffers, variant, class_labels, input_shape,
                 score_th, resized_img_w,
                 resized_img_h, total_objects, objects_by_class, invalid_outputs,
                 total_time, inference_time, num_frames, frame, pc, image_paths,
                 idx, results, csv, csv_mark, commands, faults, serverVars,
                 loopVars>>

NextMetrics == CallGenerateMetrics

SpecMetrics == InitMetrics /\ [][NextMetrics]_vars

\* ------------------------------------ the suppressor alone: SpecSuppress
\* Largest number of candidates handed to the suppressor.
MaxCands == 3

\* Boxes (x, y, w, h) in a 4 x 4 image: three columns two pixels wide that
\* overlap their neighbour by half, and the whole image.
SuppressBoxes == {<<0, 0, 2, 4>>, <<1, 0, 2, 4>>, <<2, 0, 2, 4>>, <<0, 0, 4, 4>>}

\* Confidences on the confidence threshold and above it.
SuppressConfidences == {F(ConfTh), F(80), F(90)}

\* The bboxes / confidences lists the decoder can hand to cv2.dnn.NMSBoxes.
CandidateLists ==
  SeqsUpTo({[class_id |-> 0, confidence |-> c, bbox |-> b, yolo_bbox |-> b,
             row |-> 0] : b \in SuppressBoxes, c \in SuppressConfidences},
           MaxCands)

\* `indices_nms = cv2.dnn.NMSBoxes(bboxes, confidences, self.conf_th,
\* self.nms_th)` on a list of candidates.
Suppressed(cands) ==
  NMSBoxes([i \in DOMAIN cands |-> cands[i].bbox],
           [i \in DOMAIN cands |-> cands[i].confidence], ConfTh, NmsTh)

InitSuppress ==
  /\ running = FALSE
  /\ variant = "single"
  /\ score_th = ConfTh
  /\ class_labels = <<"person", "car">>
  /\ input_shape = <<1, 3, 4, 4>>
  /\ resized_img_w = 0
  /\ resized_img_h = 0
  /\ total_objects = 0
  /\ objects_by_class = ZeroByClass(class_labels)
  /\ invalid_outputs = 0
  /\ total_time = 0
  /\ inference_time = 0
  /\ num_frames = 1
  /\ \E cands \in CandidateLists :
       frame = [NoFrame EXCEPT !.state = "candidates", !.cands = cands,
                               !.height = 4, !.width = 4]
  /\ pc = "suppress"
  /\ image_paths = <<>>
  /\ idx = 0
  /\ results = <<>>
  /\ outcome = [kind |-> "none"]
  /\ csv = <<>>
  /\ csv_mark = 0
  /\ commands = 0
  /\ faults = <<>>
  /\ Constructed
  /\ NoArguments

\* The suppression step on the candidates of the frame.
Suppress ==
  /\ pc = "suppress"
  /\ frame.state = "candidates"
  /\ frame' = [frame EXCEPT !.state = "suppressed",
                            !.indices_nms = Suppressed(frame.cands)]
  /\ UNCHANGED <<argsVars, buffers, variant, class_labels, input_shape,
                 score_th, resized_img_w,
                 resized_img_h, total_objects, objects_by_class, invalid_outputs,
                 total_time, inference_time, num_frames, pc, image_paths,
                 idx, results, outcome, csv, csv_mark, commands, faults,
                 serverVars, loopVars>>

\* The suppression step again, on the boxes and confidences it retained (in
\* the order of the candidate list) and with the same thresholds.
SuppressAgain ==
  /\ pc = "suppress"
  /\ frame.state = "suppressed"
  /\ LET kept == {frame.indices_nms[t] : t \in DOMAIN frame.indices_nms}
         retained == SelectSeq([i \in DOMAIN frame.cands |->
                                  [frame.cands[i] EXCEPT !.row = i]],
                               LAMBDA c : c.row \in kept)
     IN frame' = [frame EXCEPT !.state = "again",
                               !.cands = retained,
                               !.indices_nms = Suppressed(retained)]
  /\ UNCHANGED <<argsVars, buffers, variant, class_labels, input_shape,
                 score_th, resized_img_w,
                 resized_img_h, total_objects, objects_by_class, invalid_outputs,
                 total_time, inference_time, num_frames, pc, image_paths,
                 idx, results, outcome, csv, csv_mark, commands, faults,
                 serverVars, loopVars>>

NextSuppress ==
  \/ Suppress
  \/ SuppressAgain

SpecSuppress == InitSuppress /\ [][NextSuppress]_vars

\* ------------------------------------------- the command loop: Spec
\* Largest number of command lines read before a quit.
MaxCommands == 3

\* The folders of a session: one holding two images listed out of order, one
\* holding no image.
SessionFolders == {<<File(2), File(1)>>, <<File(3)>>}

\* The image of an image command.
SessionImage == JoinPath(File(1))

\* The paths typed after --image: folder/1.jpg and folder/2.PNG.
SessionTyped == {SessionImage, JoinPath(File(2))}

\* What happens to an image of a session: it cannot be read, or it gives two
\* boxes within one clock tick (both timed sections measure 0) or in two, or
\* it gives a NaN tensor.
SessionEvents ==
  {e \in ImageEvents :
     \/ ~e.readable
     \/ /\ e.engine_ok
        /\ e.pre = e.inf
        /\ e.pre <= 1
        /\ e.output = TwoBoxes \/ e.pre = 1}

\* A faulty variant of ResetCounters that keeps the counters as they are.
ResetCounters_Mut == Counters

\* reset_counters, as seen from infer_single_image(reset_counters=True).
ResetCounters ==
  [total_time |-> 0, inference_time |-> 0, total_objects |-> 0,
   objects_by_class |-> ZeroByClass(class_labels), invalid_outputs |-> 0,
   resized_img_w |-> resized_img_w, resized_img_h |-> resized_img_h]

\* A faulty variant of InferencerCleanup that forgets the execution context.
InferencerCleanup_Mut == IF engine = "held" THEN <<"engine">> ELSE <<>>

\* TRTInferenceYolov5.cleanup: the handles it sets to None, in order.
InferencerCleanup ==
  (IF context = "held" THEN <<"context">> ELSE <<>>)
    \o (IF engine = "held" THEN <<"engine">> ELSE <<>>)

\* YOLOv5Server.cleanup: the inferencer cleaned up and dropped, once.
Cleanup ==
  IF inferencer = "held"
  THEN \E order \in {InferencerCleanup} :
         /\ context' = (IF \E i \in DOMAIN order : order[i] = "context"
                        THEN "none" ELSE context)
         /\ engine' = (IF \E i \in DOMAIN order : order[i] = "engine"
                       THEN "none" ELSE engine)
         /\ released' = released \o order
         /\ inferencer' = "none"
  ELSE UNCHANGED <<inferencer, context, engine, released>>

\* The state after YOLOv5Server.__init__: handles held, counters reset, the
\* csv file created with its header, start() not yet called.
InitSession ==
  /\ running = FALSE
  /\ variant = "single"
  /\ score_th = ConfTh
  /\ class_labels = <<"person", "car">>
  /\ input_shape = <<1, 3, 4, 4>>
  /\ resized_img_w = 0
  /\ resized_img_h = 0
  /\ total_objects = 0
  /\ objects_by_class = ZeroByClass(class_labels)
  /\ invalid_outputs = 0
  /\ total_time = 0
  /\ inference_time = 0
  /\ num_frames = 0
  /\ frame = NoFrame
  /\ pc = "idle"
  /\ image_paths = <<>>
  /\ idx = 0
  /\ results = <<>>
  /\ outcome = [kind |-> "none"]
  /\ csv = <<HeaderRow>>
  /\ csv_mark = 0
  /\ commands = 0
  /\ faults = <<>>
  /\ Constructed
  /\ NoArguments

\* start() up to the first input(): running set, the SIGINT handler installed.
Start ==
  /\ pc = "idle"
  /\ running' = TRUE
  /\ pc' = "prompt"
  /\ UNCHANGED <<argsVars, buffers, variant, class_labels, input_shape,
                 score_th, resized_img_w,
                 resized_img_h, total_objects, objects_by_class, invalid_outputs,
                 total_time, inference_time, num_frames, frame, image_paths,
                 idx, results, outcome, csv, csv_mark, commands, faults,
                 inferencer, context, engine, released, shutdown, loopVars>>

\* An image command with its --image argument: _process_single_image.  The
\* file does not exist; or infer_single_image resets the counters, processes
\* the image and the detections of a successful image go to the csv file.
ProcessSingleImage(limit, events) ==
  /\ pc = "prompt"
  /\ commands < limit
  /\ commands' = commands + 1
  /\ \E typed \in SessionTyped : last' = ImageCommandRead(typed)
  /\ csv_mark' = Len(csv)
  /\ idx' = 0
  /\ image_paths' = <<>>
  /\ pc' = AfterCommand
  /\ \/ /\ outcome' = [kind |-> "not_found"]
        /\ emitted' = {"message"}
        /\ results' = <<>>
        /\ faults' = <<>>
        /\ frame' = NoFrame
        /\ UNCHANGED <<total_objects, objects_by_class, invalid_outputs,
                       total_time, inference_time, num_frames, resized_img_w,
                       resized_img_h, csv, returned, buffers>>
     \/ /\ inferencer = "held"
        /\ \E e \in events :
             \E r \in {InferSingleImage(last'.path, e, ResetCounters)} :
                /\ SetCounters(r.counters)
                /\ num_frames' = 1
                /\ frame' = r.frame
                /\ results' = <<r.result>>
                /\ faults' = <<Fault(e)>>
                /\ outcome' = [kind |-> "returned", success |-> r.result.success]
                /\ csv' = IF r.result.success
                          THEN WriteDetectionsToCsv(csv, last'.path,
                                                    r.result.detections)
                          ELSE csv
                /\ emitted' = (IF r.result.success THEN {"image"} ELSE {"message"})
                                \cup (IF csv' # csv THEN {"rows"} ELSE {})
                /\ returned' = returned + Len(r.result.detections)
                /\ buffers' = BuffersAfter(FALSE, Fault(e), buffers)
  /\ UNCHANGED <<argsVars, variant, class_labels, input_shape,
                 score_th, serverVars>>

\* An image or folder command on an existing path read after cleanup has set
\* self.inferencer to None: the handler is called, `self.inferencer.infer_...`
\* raises AttributeError, the handler prints it.
DispatchReleased(limit) ==
  /\ pc = "prompt"
  /\ commands < limit
  /\ inferencer = "none"
  /\ commands' = commands + 1
  /\ \E kind \in {"image", "folder"} : last' = CommandRead(kind, TRUE)
  /\ outcome' = [kind |-> "raised", error |-> "AttributeError"]
  /\ emitted' = {"message"}
  /\ csv_mark' = Len(csv)
  /\ idx' = 0
  /\ image_paths' = <<>>
  /\ results' = <<>>
  /\ faults' = <<>>
  /\ frame' = NoFrame
  /\ pc' = AfterCommand
  /\ UNCHANGED <<argsVars, buffers, variant, class_labels, input_shape,
                 score_th, resized_img_w,
                 resized_img_h, total_objects, objects_by_class, invalid_outputs,
                 total_time, inference_time, num_frames, csv, serverVars,
                 returned>>

\* A line that reaches no handler and prints nothing: an image or folder
\* command of fewer than three words, without its flag or with the flag last
\* (`continue`, `except ValueError: pass`), or any other line (`else: pass`).
IgnoredCommand(limit) ==
  /\ pc = "prompt"
  /\ commands < limit
  /\ commands' = commands + 1
  /\ \E kind \in {"image", "folder", "unknown"} : last' = CommandRead(kind, FALSE)
  /\ outcome' = [kind |-> "ignored"]
  /\ emitted' = {}
  /\ csv_mark' = Len(csv)
  /\ pc' = AfterCommand
  /\ UNCHANGED <<argsVars, buffers, variant, class_labels, input_shape,
                 score_th, resized_img_w,
                 resized_img_h, total_objects, objects_by_class, invalid_outputs,
                 total_time, inference_time, num_frames, frame, image_paths,
                 idx, results, csv, faults, serverVars, returned>>

\* input() at the end of the input source: it raises EOFError, which the
\* loop's `except Exception` catches and prints; the loop test follows.
EndOfInput(limit) ==
  /\ pc = "prompt"
  /\ commands < limit
  /\ commands' = commands + 1
  /\ last' = CommandRead("eof", FALSE)
  /\ outcome' = [kind |-> "raised", error |-> "EOFError"]
  /\ emitted' = {"message"}
  /\ csv_mark' = Len(csv)
  /\ pc' = AfterCommand
  /\ UNCHANGED <<argsVars, buffers, variant, class_labels, input_shape,
                 score_th, resized_img_w,
                 resized_img_h, total_objects, objects_by_class, invalid_outputs,
                 total_time, inference_time, num_frames, frame, image_paths,
                 idx, results, csv, faults, serverVars, returned>>

\* `elif command == "quit"`: running cleared, the loop left.
QuitCommand ==
  /\ pc = "prompt"
  /\ running' = FALSE
  /\ last' = CommandRead("quit", FALSE)
  /\ shutdown' = IF shutdown.by = "none"
                 THEN [by |-> "quit", at |-> pc, idx |-> idx]
                 ELSE shutdown
  /\ outcome' = [kind |-> "quit"]
  /\ emitted' = {}
  /\ csv_mark' = Len(csv)
  /\ commands' = commands + 1
  /\ pc' = LoopTest(FALSE)
  /\ UNCHANGED <<argsVars, buffers, variant, class_labels, input_shape,
                 score_th, resized_img_w,
                 resized_img_h, total_objects, objects_by_class, invalid_outputs,
                 total_time, inference_time, num_frames, frame, image_paths,
                 idx, results, csv, faults, inferencer, context, engine,
                 released, returned>>

\* _handle_sigint, run between two bytecodes of the main thread: while input()
\* waits for a line (input() then goes on waiting), between a command and the
\* loop test, between two images of a folder, or in start()'s finally block.
HandleSigint ==
  /\ pc \in {"prompt", "folder_loop", "exiting"}
  /\ running' = FALSE
  /\ Cleanup
  /\ shutdown' = IF shutdown.by = "none"
                 THEN [by |-> "sigint", at |-> pc, idx |-> idx]
                 ELSE shutdown
  /\ \/ pc' = pc
     \/ /\ pc = "prompt"
        /\ pc' = "exiting"
  /\ UNCHANGED <<argsVars, buffers, variant, class_labels, input_shape,
                 score_th, resized_img_w,
                 resized_img_h, total_objects, objects_by_class, invalid_outputs,
                 total_time, inference_time, num_frames, frame, image_paths,
                 idx, results, outcome, csv, csv_mark, commands, faults,
                 loopVars>>

\* The loop left: start()'s finally block clears running, calls cleanup, and
\* start() returns.
ExitLoop ==
  /\ pc = "exiting"
  /\ running' = FALSE
  /\ Cleanup
  /\ pc' = "stopped"
  /\ UNCHANGED <<argsVars, buffers, variant, class_labels, input_shape,
                 score_th, resized_img_w,
                 resized_img_h, total_objects, objects_by_class, invalid_outputs,
                 total_time, inference_time, num_frames, frame, image_paths,
                 idx, results, outcome, csv, csv_mark, commands, faults,
                 shutdown, loopVars>>

SessionFolderImage == FolderImageOn(SessionEvents)

Next ==
  \/ Start
  \/ ProcessSingleImage(MaxCommands, SessionEvents)
  \/ ProcessFolderBegin(MaxCommands, SessionFolders)
  \/ SessionFolderImage
  \/ FolderFinish
  \/ DispatchReleased(MaxCommands)
  \/ IgnoredCommand(MaxCommands)
  \/ EndOfInput(MaxCommands)
  \/ QuitCommand
  \/ HandleSigint
  \/ ExitLoop

Spec == InitSession /\ [][Next]_vars

\* The same, where the main thread goes on running: a loop that has been left
\* reaches the end of start().
SpecLive == Spec /\ WF_vars(ExitLoop)

\* ----------------- detect_trt_fp32_server.py, one command: SpecArgs
\* Largest number of handler calls followed in one run of the program.
MaxInvocations == 2

\* sys.argv: its first word; for an image or folder command whether the
\* arguments the handler's parser requires (--image / --folder, --output) are
\* all there, and --json_output: absent, a file that can be written, a file
\* that cannot be opened.
Argvs ==
  {[command |-> c, json_output |-> "none", complete |-> TRUE] :
     c \in {"server", "quit", "other"}}
  \cup {[command |-> c, json_output |-> j, complete |-> k] :
          c \in {"image", "folder"},
          j \in {"none", "writable", "unwritable"}, k \in BOOLEAN}

\* What happens to an image of the fp32 program: as in a session, or the image
\* is read and the copy to the device, the execution or the copy back fails.
ArgsEvents ==
  SessionEvents \cup {e \in ImageEvents : e.readable /\ ~e.engine_ok /\ e.pre = 0}

settingVars == <<variant, class_labels, input_shape, score_th>>
counterVars == <<resized_img_w, resized_img_h, total_objects, objects_by_class,
                 invalid_outputs, total_time, inference_time>>
folderVars == <<num_frames, frame, image_paths, idx, results, faults>>
logVars == <<csv, csv_mark, commands, last, returned>>
handleVars == <<inferencer, context, engine, released>>

\* The program is entered through main() (`python detect_trt_fp32_server.py
\* ...`), no server constructed yet; or a caller has constructed a
\* YOLOv5Server and is about to call start() with sys.argv as given.
InitArgs ==
  /\ entry \in {"main", "start"}
  /\ argv \in Argvs
  /\ invoked = 0
  /\ buffers = {}
  /\ pc = entry
  /\ inferencer = (IF entry = "start" THEN "held" ELSE "none")
  /\ context = inferencer
  /\ engine = inferencer
  /\ released = <<>>
  /\ shutdown = NoShutdown
  /\ running = FALSE
  /\ variant = "dual"
  /\ score_th = ScoreThAlt
  /\ class_labels = <<"person", "car">>
  /\ input_shape = <<1, 3, 4, 4>>
  /\ resized_img_w = 0
  /\ resized_img_h = 0
  /\ total_objects = 0
  /\ objects_by_class = ZeroByClass(class_labels)
  /\ invalid_outputs = 0
  /\ total_time = 0
  /\ inference_time = 0
  /\ num_frames = 0
  /\ frame = NoFrame
  /\ image_paths = <<>>
  /\ idx = 0
  /\ results = <<>>
  /\ faults = <<>>
  /\ outcome = [kind |-> "none"]
  /\ csv = <<>>
  /\ csv_mark = 0
  /\ commands = 0
  /\ last = NoCommand
  /\ emitted = {}
  /\ returned = 0

\* main(): mode 'server' constructs the server and calls start(); modes
\* 'image', 'folder' and 'quit' print "Forwarding ... command to server" and
\* return 0; any other first word, or an image or folder command without a
\* required argument, is refused by the argument parser (exit status 2).
Main ==
  /\ pc = "main"
  /\ IF argv.command = "server"
     THEN /\ inferencer' = "held"
          /\ context' = "held"
          /\ engine' = "held"
          /\ pc' = "start"
          /\ UNCHANGED <<outcome, emitted>>
     ELSE /\ pc' = "exited"
          /\ outcome' = [kind |-> "exit",
                         code |-> IF argv.command = "other" \/ ~argv.complete
                                  THEN 2 ELSE 0]
          /\ emitted' = {"message"}
          /\ UNCHANGED <<inferencer, context, engine>>
  /\ UNCHANGED <<argsVars, buffers, settingVars, counterVars, folderVars,
                 logVars, running, released, shutdown>>

\* start() up to _process_commands: running set, the SIGINT handler installed.
StartArgs ==
  /\ pc = "start"
  /\ running' = TRUE
  /\ pc' = "args_loop"
  /\ UNCHANGED <<argsVars, buffers, settingVars, counterVars, folderVars,
                 logVars, handleVars, shutdown, outcome, emitted>>

\* `while self.running` is false: _process_commands returns.
LeaveArgsLoop ==
  /\ pc = "args_loop"
  /\ ~running
  /\ pc' = "finally"
  /\ UNCHANGED <<argsVars, buffers, settingVars, counterVars, folderVars,
                 logVars, handleVars, running, shutdown, outcome, emitted>>

\* The end of a handler that has its result: json.dump to --json_output when
\* given, the printed summary, then `return` in _process_commands; an
\* unwritable --json_output makes open() raise, the loop's `except Exception`
\* prints the error and the loop test follows.
HandlerEnds(success) ==
  IF argv.json_output = "unwritable"
  THEN /\ outcome' = [kind |-> "raised", error |-> "OSError"]
       /\ emitted' = emitted \cup {"message"}
       /\ pc' = "args_loop"
  ELSE /\ outcome' = [kind |-> "returned", success |-> success]
       /\ emitted' = emitted \cup {"message"}
                       \cup (IF argv.json_output = "writable" THEN {"json"} ELSE {})
       /\ pc' = "finally"

\* parse_args of a handler without a required argument: SystemExit(2), which
\* `except Exception` does not catch; start()'s finally block follows.
HandlerParserExits ==
  /\ outcome' = [kind |-> "exit", code |-> 2]
  /\ emitted' = {"message"}
  /\ pc' = "finally"

\* The fp32 infer_single_image under event e: counters reset, the image
\* processed, generate_metrics inside the same try (its ZeroDivisionError
\* turns the result into a failure).
InferSingleImageDual(image_path, e) ==
  LET r == InferSingleImage(image_path, e, ResetCounters)
      metrics == GenerateMetrics(1, r.counters.total_time,
                                 r.counters.inference_time,
                                 r.counters.total_objects,
                                 r.counters.invalid_outputs,
                                 r.counters.objects_by_class)
  IN IF r.result.success /\ metrics.kind = "raised"
     THEN [r EXCEPT !.result = FailedResult(image_path)]
     ELSE r

\* `if command == "image": self._handle_image_command()`
HandleImageCommand ==
  /\ pc = "args_loop"
  /\ running
  /\ argv.command = "image"
  /\ invoked < MaxInvocations
  /\ invoked' = invoked + 1
  /\ \/ /\ ~argv.complete
        /\ HandlerParserExits
        /\ UNCHANGED <<counterVars, folderVars, buffers>>
     \/ /\ argv.complete
        /\ \E e \in ArgsEvents :
             \E r \in {InferSingleImageDual(SessionImage, e)} :
                /\ SetCounters(r.counters)
                /\ num_frames' = 1
                /\ frame' = r.frame
                /\ results' = <<r.result>>
                /\ faults' = <<Fault(e)>>
                /\ buffers' = BuffersAfter(FALSE, Fault(e), buffers)
                /\ HandlerEnds(r.result.success)
        /\ UNCHANGED <<image_paths, idx>>
  /\ UNCHANGED <<entry, argv, settingVars, logVars, handleVars, running,
                 shutdown>>

\* `elif command == "folder": self._handle_folder_command()` up to the first
\* image of the fp32 infer_folder: counters reset, the folder listed
\* (os.listdir raises when it does not exist), num_frames set, the error dict
\* returned at once when no image is found.
HandleFolderCommand ==
  /\ pc = "args_loop"
  /\ running
  /\ argv.command = "folder"
  /\ invoked < MaxInvocations
  /\ invoked' = invoked + 1
  /\ \/ /\ ~argv.complete
        /\ HandlerParserExits
        /\ UNCHANGED <<counterVars, folderVars>>
     \/ /\ argv.complete
        /\ SetCounters(ResetCounters)
        /\ idx' = 0
        /\ results' = <<>>
        /\ faults' = <<>>
        /\ frame' = NoFrame
        /\ \/ /\ image_paths' = <<>>
              /\ num_frames' = 0
              /\ outcome' = [kind |-> "raised", error |-> "FileNotFoundError"]
              /\ emitted' = {"message"}
              /\ pc' = "args_loop"
           \/ \E listing \in SessionFolders :
                /\ image_paths' = GetImagesFromFolder(listing)
                /\ num_frames' = Len(image_paths')
                /\ IF image_paths' = <<>>
                   THEN HandlerEnds(FALSE)
                   ELSE /\ outcome' = [kind |-> "running"]
                        /\ emitted' = {}
                        /\ pc' = "folder_loop"
  /\ UNCHANGED <<entry, argv, buffers, settingVars, logVars, handleVars,
                 running, shutdown>>

\* One iteration of the fp32 infer_folder's loop.
ArgsFolderImage ==
  /\ variant = "dual"
  /\ FolderImageOn(ArgsEvents)

\* The end of the fp32 infer_folder and of _handle_folder_command:
\* generate_metrics, whose ZeroDivisionError leaves infer_folder and the
\* handler and is caught by the loop; else the dict returned to the handler.
\* The call is over and infer_folder's d_input and d_output are gone with it.
FolderFinishArgs ==
  /\ pc = "folder_loop"
  /\ variant = "dual"
  /\ idx = Len(image_paths)
  /\ \E metrics \in {GenerateMetrics(num_frames, total_time, inference_time,
                                     total_objects, invalid_outputs,
                                     objects_by_class)} :
        IF metrics.kind = "raised"
        THEN /\ outcome' = metrics
             /\ emitted' = emitted \cup {"message"}
             /\ pc' = "args_loop"
        ELSE HandlerEnds(TRUE)
  /\ buffers' = {}
  /\ UNCHANGED <<argsVars, settingVars, counterVars, folderVars, logVars,
                 handleVars, running, shutdown>>

\* `elif command == "quit"` clears running; any other first word prints
\* "Unknown command"; either way `return` follows.
OtherCommand ==
  /\ pc = "args_loop"
  /\ running
  /\ argv.command \notin {"image", "folder"}
  /\ running' = (argv.command # "quit")
  /\ outcome' = [kind |-> IF argv.command = "quit" THEN "quit" ELSE "ignored"]
  /\ emitted' = {"message"}
  /\ pc' = "finally"
  /\ UNCHANGED <<argsVars, buffers, settingVars, counterVars, folderVars,
                 logVars, handleVars, shutdown>>

\* The fp32 _handle_sigint, run between two bytecodes of the loop or of
\* infer_folder: running cleared, nothing released.
HandleSigintArgs ==
  /\ pc \in {"args_loop", "folder_loop"}
  /\ variant = "dual"
  /\ running
  /\ running' = FALSE
  /\ shutdown' = [by |-> "sigint", at |-> pc, idx |-> idx]
  /\ UNCHANGED <<argsVars, buffers, settingVars, counterVars, folderVars,
                 logVars, handleVars, pc, outcome, emitted>>

\* start()'s finally block, then start() and the program return.
FinallyArgs ==
  /\ pc = "finally"
  /\ running' = FALSE
  /\ pc' = "exited"
  /\ UNCHANGED <<argsVars, buffers, settingVars, counterVars, folderVars,
                 logVars, handleVars, shutdown, outcome, emitted>>

NextArgs ==
  \/ Main
  \/ StartArgs
  \/ LeaveArgsLoop
  \/ HandleImageCommand
  \/ HandleFolderCommand
  \/ ArgsFolderImage
  \/ FolderFinishArgs
  \/ OtherCommand
  \/ HandleSigintArgs
  \/ FinallyArgs

SpecArgs == InitArgs /\ [][NextArgs]_vars

\* ------------------------------------------------------------ properties
\* a >= b on non-NaN values
FGe(a, b) == ~IsNaN(a) /\ ~IsNaN(b) /\ (a = b \/ FLt(b, a))

RowNonFinite(detect) == \E i \in DOMAIN detect : ~IsFinite(detect[i])
OutputNonFinite(output) == \E r \in DOMAIN output : RowNonFinite(output[r])

\* The class scores of an anchor row, and a largest one of them.
ScoresOf(detect) == SubSeq(detect, 6, Len(detect))
IsMaxScore(detect, s) ==
  /\ \E j \in DOMAIN ScoresOf(detect) : ScoresOf(detect)[j] = s
  /\ \A j \in DOMAIN ScoresOf(detect) : FGe(s, ScoresOf(detect)[j])

FrameDone == pc = "decode" /\ frame.state = "done"

\* C1 (as claimed): a raw output tensor holding a NaN, a +inf or a -inf
\* anywhere gives no candidate and no detection and raises invalid_outputs by
\* exactly 1; a tensor of finite values leaves invalid_outputs unchanged.
C1_NonFiniteOutputIsInvalid ==
  FrameDone =>
    IF OutputNonFinite(frame.output)
    THEN /\ frame.cands = <<>>
         /\ frame.detections = <<>>
         /\ invalid_outputs = frame.invalid_before + 1
    ELSE invalid_outputs = frame.invalid_before

\* C2: every candidate has objectness >= the confidence threshold and a
\* largest class score >= the score threshold, and a row on a valid box whose
\* objectness and largest class score equal the thresholds is a candidate.
C2_ThresholdsInclusive ==
  FrameDone =>
    /\ \A i \in DOMAIN frame.cands :
         LET detect == frame.output[frame.cands[i].row]
         IN /\ FGe(detect[5], F(ConfTh))
            /\ \E j \in DOMAIN ScoresOf(detect) :
                 /\ IsMaxScore(detect, ScoresOf(detect)[j])
                 /\ FGe(ScoresOf(detect)[j], F(ScoreThreshold(variant, score_th)))
    /\ \A r \in DOMAIN frame.output :
         LET detect == frame.output[r]
         IN (/\ ~OutputHasNaN(frame.output)
             /\ detect[5] = F(ConfTh)
             /\ IsMaxScore(detect, F(ScoreThreshold(variant, score_th)))
             /\ SubSeq(detect, 1, 4) = <<F(2), F(2), F(4), F(4)>>)
            => \E i \in DOMAIN frame.cands : frame.cands[i].row = r

\* C2 witness: a row exactly on both thresholds became a candidate.
C2_Witness ==
  /\ FrameDone
  /\ \E i \in DOMAIN frame.cands :
       LET detect == frame.output[frame.cands[i].row]
       IN /\ detect[5] = F(ConfTh)
          /\ IsMaxScore(detect, F(ScoreThreshold(variant, score_th)))

\* C3: every candidate box lies inside the image and has positive size.
C3_BoxInsideImage ==
  FrameDone =>
    \A i \in DOMAIN frame.cands :
      LET b == frame.cands[i].bbox
      IN /\ 0 <= b[1]
         /\ 0 <= b[2]
         /\ b[3] > 0
         /\ b[4] > 0
         /\ b[1] + b[3] <= frame.width
         /\ b[2] + b[4] <= frame.height

\* C3 witness: a candidate whose corner was clamped to 0 and one whose width
\* was clamped to the right border.
C3_Witness ==
  /\ FrameDone
  /\ \E i \in DOMAIN frame.cands :
       LET c == frame.cands[i]
       IN /\ 2 * c.yolo_bbox[1] - c.yolo_bbox[3] < 0
          /\ c.bbox[1] = 0
  /\ \E i \in DOMAIN frame.cands :
       LET c == frame.cands[i]
       IN /\ c.bbox[1] + c.bbox[3] = frame.width
          /\ TruncDiv(c.yolo_bbox[3] * frame.width, resized_img_w) > c.bbox[3]

\* C4 (as claimed): the detections are the candidates kept by greedy NMS over
\* all candidates of all classes in descending confidence: a candidate is
\* dropped exactly when its IoU with a retained candidate taken before it
\* exceeds the NMS threshold.
C4_DetectionsAreGreedyNMS ==
  FrameDone =>
    LET kept == {frame.indices_nms[t] : t \in DOMAIN frame.indices_nms}
        conf == [i \in DOMAIN frame.cands |-> frame.cands[i].confidence]
    IN /\ \A i \in DOMAIN frame.cands :
            (i \notin kept) <=>
              \E j \in kept :
                /\ j # i
                /\ Before(j, i, conf)
                /\ ~OverlapWithin(frame.cands[i].bbox, frame.cands[j].bbox, NmsTh)
       /\ Len(frame.detections) = Cardinality(kept)

\* A folder command over a non-empty image list has ended.
FolderDone ==
  /\ pc = "prompt"
  /\ commands > 0
  /\ image_paths # <<>>
  /\ outcome.kind \in {"returned", "raised"}

\* infer_folder has iterated over every image of a non-empty image list.
FolderLoopOver ==
  /\ image_paths # <<>>
  /\ idx = Len(image_paths)
  /\ \/ pc = "folder_loop"
     \/ FolderDone

\* The number of images of the folder that met fault `kind`.
FaultCount(kind) == Cardinality({i \in DOMAIN faults : faults[i] = kind})

\* The lengths of the detection lists of the result dicts.
DetectionCounts(rs) == [i \in DOMAIN rs |-> Len(rs[i].detections)]

\* C5 (as claimed): whatever images of a non-empty folder fail, all of them
\* included, infer_folder raises nothing and returns success=True with one
\* entry per image, the failed ones marked success=False with an error
\* message, the others processed.
C5_FolderNeverAborts ==
  FolderDone =>
    /\ outcome.kind = "returned"
    /\ outcome.success
    /\ Len(outcome.results) = Len(image_paths)
    /\ \A i \in DOMAIN outcome.results :
         /\ outcome.results[i].input_path = image_paths[i]
         /\ outcome.results[i].success <=> faults[i] = "none"
         /\ ~outcome.results[i].success => outcome.results[i].error # ""

\* C6 (as claimed): after a folder command over n images of which k fail to
\* load (and none fails otherwise), the result list has n entries, k of them
\* marked failed, and the metrics report n - k frames.
C6_FrameCountExcludesFailures ==
  (/\ FolderDone
   /\ outcome.kind = "returned"
   /\ FaultCount("engine") = 0)
  => /\ Len(outcome.results) = Len(image_paths)
     /\ Cardinality({i \in DOMAIN outcome.results :
                       ~outcome.results[i].success}) = FaultCount("load")
     /\ outcome.metrics.num_frames = Len(image_paths) - FaultCount("load")

MetricsCalled == pc = "metrics" /\ outcome.kind # "none"

\* C8 (as claimed): generate_metrics fails with a division by zero whenever
\* the frame count or the total time is 0, and otherwise returns a summary
\* whose average FPS is frame count / total time.
C8_MetricsGuard ==
  MetricsCalled =>
    IF num_frames = 0 \/ total_time = 0
    THEN outcome.kind = "raised"
    ELSE /\ outcome.kind = "metrics"
         /\ outcome.average_fps = <<num_frames, total_time>>

\* C8 (amended): generate_metrics fails with a division by zero exactly when
\* the frame count is positive and the total time is 0; with frame count 0 it
\* returns an empty summary without failing; otherwise it returns a summary
\* whose average FPS is frame count / total time, and no quotient of a
\* summary has a zero divisor (no infinity, no NaN).
C8_MetricsGuardAmended ==
  MetricsCalled =>
    /\ outcome.kind = "raised" <=> (num_frames > 0 /\ total_time = 0)
    /\ outcome.kind = "empty" <=> num_frames = 0
    /\ outcome.kind = "metrics" =>
         /\ outcome.average_fps = <<num_frames, total_time>>
         /\ outcome.average_fps[2] # 0
         /\ outcome.average_inference_time = <<inference_time, num_frames>>
         /\ outcome.average_inference_time[2] # 0

\* C8 witness: generate_metrics raised on a positive frame count and a total
\* time of 0.
C8_Witness ==
  /\ MetricsCalled
  /\ num_frames > 0
  /\ total_time = 0
  /\ outcome.kind = "raised"

\* C9 (as claimed): whatever the order of the directory listing, the images
\* of a folder command are processed in lexicographic order of their names.
C9_LexicographicOrder ==
  (pc = "folder_loop" \/ FolderDone) =>
    \A i, j \in DOMAIN image_paths :
      i < j => BaseName(image_paths[i]).name < BaseName(image_paths[j]).name

\* The place of the image named `filename` in the order of processing.
ProcessedAt(filename) ==
  CHOOSE i \in DOMAIN results : BaseName(results[i].input_path) = filename

\* The rows the current command appended to detections.csv.
NewRows == SubSeq(csv, csv_mark + 1, Len(csv))

\* C10: the rows a folder command appends to the detection log are grouped by
\* image in the order of processing: every row of an image processed before
\* another precedes every row of the other.
C10_LogRowsInProcessingOrder ==
  FolderDone =>
    /\ \A a \in DOMAIN NewRows :
         \E i \in DOMAIN results :
           BaseName(results[i].input_path) = NewRows[a].image_file
    /\ \A a, b \in DOMAIN NewRows :
         ProcessedAt(NewRows[a].image_file) < ProcessedAt(NewRows[b].image_file)
           => a < b

\* C10 witness: a folder command that processed 2.PNG before 1.jpg and
\* appended rows for both.
C10_Witness ==
  /\ FolderDone
  /\ Len(results) >= 2
  /\ BaseName(results[1].input_path).name > BaseName(results[2].input_path).name
  /\ \E a, b \in DOMAIN NewRows :
       /\ NewRows[a].image_file = BaseName(results[1].input_path)
       /\ NewRows[b].image_file = BaseName(results[2].input_path)

\* The command loop is between two commands, or over.
BetweenCommands == pc \in {"prompt", "exiting", "stopped"}

\* C11 (as claimed): once shutdown has begun (a quit was read or an interrupt
\* was handled, also while input() was waiting), no image or folder command
\* read afterwards is passed to its handler.
C11_NoCommandAfterShutdown == ~(last.late /\ last.handled)

\* C12 (as claimed): when an interrupt is handled while a folder command is in
\* flight, at most the image in flight is still processed, with its normal
\* result, and no later image of the folder is started.
C12_FolderStopsOnInterrupt ==
  (shutdown.by = "sigint" /\ shutdown.at = "folder_loop") =>
    \A i \in DOMAIN faults :
      i > shutdown.idx => (i = shutdown.idx + 1 /\ faults[i] # "released")

\* C13: on every way out of the Running state (quit, interrupt) the execution
\* context and the engine have been released when start() returns, the context
\* before the engine, each once.
C13_HandlesReleasedAtReturn ==
  /\ released \in {<<>>, <<"context">>, <<"context", "engine">>}
  /\ pc = "stopped" =>
       /\ context = "none"
       /\ engine = "none"
       /\ released = <<"context", "engine">>

\* C13 witness: start() has returned after an interrupt handled in the middle
\* of a folder command.
C13_Witness ==
  /\ pc = "stopped"
  /\ shutdown.by = "sigint"
  /\ shutdown.at = "folder_loop"
  /\ released = <<"context", "engine">>

\* The controller's state, and its place in the order Idle, Running,
\* ShuttingDown, Stopped.
ControllerState ==
  IF pc = "idle" THEN "Idle"
  ELSE IF pc = "stopped" THEN "Stopped"
  ELSE IF running THEN "Running"
  ELSE "ShuttingDown"

Rank(state) ==
  CASE state = "Idle" -> 0
    [] state = "Running" -> 1
    [] state = "ShuttingDown" -> 2
    [] state = "Stopped" -> 3

\* C14: once a quit command is read the controller reads no further command,
\* eventually is Stopped and never Running again; the states are visited only
\* in the order Idle, Running, ShuttingDown, Stopped.
C14_QuitStops ==
  /\ [][last.kind = "quit" => commands' = commands /\ last' = last]_vars
  /\ [][Rank(ControllerState') \in {Rank(ControllerState),
                                    Rank(ControllerState) + 1}]_vars
  /\ (last.kind = "quit") ~> (pc = "stopped")

\* C14 witness: a quit read while Running has led to Stopped.
C14_Witness ==
  /\ last.kind = "quit"
  /\ shutdown.by = "quit"
  /\ pc = "stopped"

\* C15: the detection log is one header row followed by data rows only, and
\* every step leaves the old content as a prefix of the new one.
C15_LogAppendOnly ==
  /\ [](/\ Len(csv) >= 1
        /\ csv[1] = HeaderRow
        /\ \A i \in 2..Len(csv) : csv[i].kind = "row")
  /\ [][/\ Len(csv') >= Len(csv)
        /\ SubSeq(csv', 1, Len(csv)) = csv]_vars

\* C15 witness: a command appended rows to a log that already held rows.
C15_Witness ==
  /\ pc # "idle"
  /\ csv_mark > 1
  /\ Len(csv) > csv_mark

\* C16 (as claimed): between commands the number of data rows of the log is
\* the number of detections returned for the successfully processed images of
\* all the commands so far.
C16_RowsMatchDetections ==
  BetweenCommands => Len(csv) - 1 = returned

\* The detections of class `label` in the results of the current command.
ClassCount(rs, label) ==
  SumSeq([i \in DOMAIN rs |->
            Cardinality({t \in DOMAIN rs[i].detections :
                           rs[i].detections[t].class = label})])

\* The counters describe the images of the current command and nothing else.
CountersOfCommand ==
  /\ total_objects = SumSeq(DetectionCounts(results))
  /\ \A label \in DOMAIN objects_by_class :
       objects_by_class[label] = ClassCount(results, label)
  /\ invalid_outputs <= Len(results)
  /\ total_time <= 2 * Len(results)
  /\ inference_time <= total_time

\* The current command reached infer_single_image or infer_folder.
ReachedInferencer ==
  /\ last.handled
  /\ \/ outcome.kind \in {"running", "returned"}
     \/ outcome.kind = "raised" /\ outcome.error = "ZeroDivisionError"

\* C17 (as claimed): every image command and every folder command starts with
\* the counters at zero, so that the counters after it depend on it alone.
C17_CountersPerCommand ==
  (last.kind \in {"image", "folder"} /\ last.handled) => CountersOfCommand

\* C17 (amended): every image or folder command that reaches the inferencer
\* (its path exists and the inferencer is still held) starts with the counters
\* at zero, so that the counters after it depend on it alone; a command that
\* does not reach it leaves the counters of the command before.
C17_CountersPerCommandAmended ==
  /\ ReachedInferencer => CountersOfCommand
  /\ (pc = "folder_loop" /\ idx = 0) =>
       /\ total_objects = 0
       /\ invalid_outputs = 0
       /\ total_time = 0
       /\ inference_time = 0
       /\ \A label \in DOMAIN objects_by_class : objects_by_class[label] = 0

\* C17 witness: an image command gave two objects after earlier commands had
\* counted objects (their rows are in the log).
C17_Witness ==
  /\ last.kind = "image"
  /\ ReachedInferencer
  /\ csv_mark > 1
  /\ total_objects = 2
  /\ Len(results) = 1

\* C18 (as claimed): a line that is none of image, folder and quit, read while
\* Running, leaves the controller Running with counters, handles and log
\* unchanged, and produces a diagnostic message.
C18_UnknownCommandDiagnosed ==
  [][(commands' = commands + 1 /\ last'.kind = "unknown" /\ running) =>
       /\ running'
       /\ pc' = "prompt"
       /\ UNCHANGED <<total_objects, objects_by_class, invalid_outputs,
                      total_time, inference_time, num_frames>>
       /\ UNCHANGED <<inferencer, context, engine, csv>>
       /\ emitted' # {}]_vars

\* C19 (as claimed): every image or folder command read has printed or written
\* an outcome by the time the next command is read.
C19_EveryCommandHasOutcome ==
  (BetweenCommands /\ last.kind \in {"image", "folder"}) => emitted # {}

\* C20: a surviving detection whose class index is outside the label table is
\* named "Unknown"; the frame still returns every surviving detection, the
\* others under their own labels, and counts every one of them.
C20_UnknownClass ==
  FrameDone =>
    /\ Len(frame.detections) = Len(frame.indices_nms)
    /\ total_objects = Len(frame.indices_nms)
    /\ \A t \in DOMAIN frame.detections :
         LET class_idx == frame.cands[frame.indices_nms[t]].class_id
         IN frame.detections[t].class =
              IF class_idx \in 0..(Len(class_labels) - 1)
              THEN class_labels[class_idx + 1]
              ELSE "Unknown"
    /\ \A label \in DOMAIN objects_by_class :
         objects_by_class[label] =
           Cardinality({t \in DOMAIN frame.detections :
                          frame.detections[t].class = label})

\* C20 witness: a frame returned a detection named "Unknown" next to one with
\* a label of the table.
C20_Witness ==
  /\ FrameDone
  /\ \E t, u \in DOMAIN frame.detections :
       /\ frame.detections[t].class = "Unknown"
       /\ frame.detections[u].class \in DOMAIN objects_by_class

\* C22: suppression is idempotent: run again on the boxes and confidences it
\* retained, with the same thresholds, it retains every one of them.
C22_SuppressionIdempotent ==
  (pc = "suppress" /\ frame.state = "again") =>
    /\ {frame.indices_nms[t] : t \in DOMAIN frame.indices_nms} = DOMAIN frame.cands
    /\ Len(frame.indices_nms) = Len(frame.cands)

\* C22 witness: the first run dropped the second of three candidates and
\* retained the other two, and the second run was given those two.
C22_Witness ==
  /\ pc = "suppress"
  /\ frame.state = "again"
  /\ Len(frame.cands) = 2
  /\ frame.cands[1].row = 1
  /\ frame.cands[2].row = 3

\* C23 (as claimed): no candidate comes from an anchor row holding a NaN, a
\* +inf or a -inf in a box parameter, the objectness or a class score.
C23_NonFiniteRowGivesNoCandidate ==
  FrameDone =>
    \A i \in DOMAIN frame.cands : ~RowNonFinite(frame.output[frame.cands[i].row])

\* The box the decoder computes for a candidate when cx and w are scaled by
\* width / rw and cy and h by height / rh.
BoxScaledBy(cand, height, width, rw, rh) ==
  LET top_left_x == TopLeft(cand.yolo_bbox[1], cand.yolo_bbox[3], width, rw)
      top_left_y == TopLeft(cand.yolo_bbox[2], cand.yolo_bbox[4], height, rh)
  IN <<top_left_x, top_left_y,
       Scaled(cand.yolo_bbox[3], width, rw, top_left_x),
       Scaled(cand.yolo_bbox[4], height, rh, top_left_y)>>

\* C24 (as claimed): for every input shape the horizontal scale factor is the
\* original width over the width (columns) of the resized image, the vertical
\* one the original height over its height (rows), and every candidate's box
\* is the one those factors give.
C24_ScaleFactorsPerAxis ==
  FrameDone =>
    /\ resized_img_w = ResizedImage(input_shape).columns
    /\ resized_img_h = ResizedImage(input_shape).rows
    /\ \A i \in DOMAIN frame.cands :
         frame.cands[i].bbox =
           BoxScaledBy(frame.cands[i], frame.height, frame.width,
                       ResizedImage(input_shape).columns,
                       ResizedImage(input_shape).rows)

\* C25 (as claimed): total_objects is the sum of the counts of
\* objects_by_class, whose keys are exactly the known class names.
C25_TotalIsSumByClass ==
  FrameDone =>
    /\ DOMAIN objects_by_class = {class_labels[i] : i \in DOMAIN class_labels}
    /\ total_objects =
         SumSeq([i \in DOMAIN class_labels |-> objects_by_class[class_labels[i]]])

\* C26 (as claimed): a candidate whose IoU with every retained candidate taken
\* before it is at most the NMS threshold is among the detections, also when
\* its confidence equals the confidence threshold.
C26_OnlyOverlapSuppresses ==
  (FrameDone /\ ~frame.nan_frame) =>
    LET kept == {frame.indices_nms[t] : t \in DOMAIN frame.indices_nms}
        conf == [i \in DOMAIN frame.cands |-> frame.cands[i].confidence]
    IN \A i \in DOMAIN frame.cands :
         (\A j \in kept \ {i} :
            Before(j, i, conf) =>
              OverlapWithin(frame.cands[i].bbox, frame.cands[j].bbox, NmsTh))
         => /\ i \in kept
            /\ \E t \in DOMAIN frame.detections :
                 /\ frame.detections[t].bbox = frame.cands[i].bbox
                 /\ frame.detections[t].confidence = frame.cands[i].confidence

\* C27 (as claimed): when reading the next command hits the end of the input,
\* the loop is left (and start() returns after cleanup); it does not go back
\* to reading.
C27_EndOfInputLeavesLoop ==
  last.kind = "eof" => pc \in {"exiting", "stopped"}

\* C29 (as claimed): the path handed to the pipeline by an image command is
\* the path typed after --image, character for character.
C29_PathHandedAsTyped ==
  (last.kind = "image" /\ last.handled /\ last.typed # NoPath) =>
    last.path = last.typed

\* C21 (as claimed): when the fp32 program is launched with an image or a
\* folder command as its startup arguments, by the time it has exited a server
\* was constructed and the matching handler was called exactly once.
C21_StartupCommandHandledOnce ==
  (/\ entry = "main"
   /\ argv.command \in {"image", "folder"}
   /\ argv.complete
   /\ pc = "exited") =>
    /\ inferencer = "held"
    /\ invoked = 1

\* C28 (as claimed): the loop of the fp32 _process_commands calls a handler at
\* most once, whether the handler returns or raises: the command is never
\* handled a second time.
C28_SingleCommandHandledOnce ==
  invoked <= 1

\* C30 (as claimed): no device buffer is live between two images or after
\* the last one: input and output buffer of an image have been freed when its
\* result is there, whether the image succeeded or failed.
C30_NoLiveBufferBetweenImages ==
  buffers = {}

====
